---- MODULE Spec2Model ----
(***************************************************************************)
(* A model of Fetcher (src/fetcher.ts): the static request dispatcher, its *)
(* four method wrappers, the process-wide defaults object, the per-call    *)
(* AbortController with its fire-and-forget timer, and the fetch transport *)
(* it awaits.                                                              *)
(*                                                                         *)
(* Text is modelled as a sequence of tokens: a URL is                      *)
(*   <<scheme, host, "/", segment, ..., "?", c1, c2, ...>>                 *)
(* with the query written character by character, so that the encoders    *)
(* and the URL's own query handling are computed, not assumed.             *)
(* An optional field is <<>> (undefined) or <<v>> (set to v).              *)
(***************************************************************************)
EXTENDS Integers, Sequences, FiniteSets, TLC

\* ------------------------------------------------------------- bounds
NumCalls == 2
MaxTimeout == 2

\* The bounds of the built-in validator, (status) => status >= 200 && status < 300.
MinOkStatus == 200
EndOkStatus == 300

Calls == 1..NumCalls

\* ------------------------------------------------- JavaScript values
Undef == <<>>
Some(v) == <<v>>
IsSet(o) == o # Undef
Val(o) == o[1]

\* Truthiness, per type: '' and 0 and undefined are falsy, objects and
\* functions are truthy.
TruthyStr(o) == IsSet(o) /\ Val(o) # <<>>
TruthyNum(o) == IsSet(o) /\ Val(o) # 0
TruthyObj(o) == IsSet(o)

\* a || b, per type.
OrStr(a, b) == IF TruthyStr(a) THEN a ELSE b
OrNum(a, b) == IF TruthyNum(a) THEN a ELSE b
OrObj(a, b) == IF TruthyObj(a) THEN a ELSE b

\* ------------------------------------------------ objects as entries
\* A Record<string, string> is the sequence of its entries <<key, value>>
\* in insertion order, keys distinct; key and value are character sequences.
Entries(o) == IF IsSet(o) THEN Val(o) ELSE <<>>
Keys(e) == {e[i][1] : i \in DOMAIN e}
Lookup(e, k) == LET i == CHOOSE j \in DOMAIN e : e[j][1] = k IN e[i][2]

\* { ...a, ...b }: a's keys keep their place and take b's value on a
\* collision; b's new keys follow in b's order.
Spread(a, b) ==
    [i \in DOMAIN a |-> IF a[i][1] \in Keys(b)
                        THEN <<a[i][1], Lookup(b, a[i][1])>>
                        ELSE a[i]]
    \o SelectSeq(b, LAMBDA p : p[1] \notin Keys(a))

\* ----------------------------------------------------------- encoders
\* encodeURIComponent, on the characters the model uses.
EncodeURIComponentChar(ch) ==
    CASE ch = " " -> <<"%", "2", "0">>
      [] ch = "&" -> <<"%", "2", "6">>
      [] ch = "=" -> <<"%", "3", "D">>
      [] ch = "?" -> <<"%", "3", "F">>
      [] ch = "+" -> <<"%", "2", "B">>
      [] ch = "%" -> <<"%", "2", "5">>
      [] OTHER -> <<ch>>

RECURSIVE EncodeURIComponent(_)
EncodeURIComponent(s) ==
    IF s = <<>> THEN <<>>
    ELSE EncodeURIComponentChar(Head(s)) \o EncodeURIComponent(Tail(s))

\* The application/x-www-form-urlencoded serializer of URLSearchParams:
\* a space becomes "+", the other reserved characters are percent-encoded.
FormEncodeChar(ch) == IF ch = " " THEN <<"+">> ELSE EncodeURIComponentChar(ch)

RECURSIVE FormEncode(_)
FormEncode(s) ==
    IF s = <<>> THEN <<>>
    ELSE FormEncodeChar(Head(s)) \o FormEncode(Tail(s))

\* URLSearchParams.prototype.toString(): name=value pairs joined by "&".
RECURSIVE FormSerialize(_)
FormSerialize(e) ==
    IF e = <<>> THEN <<>>
    ELSE FormEncode(e[1][1]) \o <<"=">> \o FormEncode(e[1][2])
         \o (IF Len(e) > 1 THEN <<"&">> ELSE <<>>) \o FormSerialize(Tail(e))

\* The decoding half of the same format (the URL's own parser).
HexChar(a, b) ==
    CASE a = "2" /\ b = "0" -> " "
      [] a = "2" /\ b = "6" -> "&"
      [] a = "3" /\ b = "D" -> "="
      [] a = "3" /\ b = "F" -> "?"
      [] a = "2" /\ b = "B" -> "+"
      [] a = "2" /\ b = "5" -> "%"
      [] OTHER -> "?"

RECURSIVE PercentDecode(_)
PercentDecode(s) ==
    IF s = <<>> THEN <<>>
    ELSE IF Head(s) = "%" /\ Len(s) >= 3
         THEN <<HexChar(s[2], s[3])>> \o PercentDecode(SubSeq(s, 4, Len(s)))
         ELSE <<Head(s)>> \o PercentDecode(Tail(s))

RECURSIVE PlusToSpace(_)
PlusToSpace(s) ==
    IF s = <<>> THEN <<>>
    ELSE <<IF Head(s) = "+" THEN " " ELSE Head(s)>> \o PlusToSpace(Tail(s))

FormDecode(s) == PercentDecode(PlusToSpace(s))

\* The first index of token t in s, 0 when absent.
IndexOf(s, t) ==
    IF \E i \in DOMAIN s : s[i] = t
    THEN CHOOSE i \in DOMAIN s : s[i] = t /\ \A j \in 1..(i - 1) : s[j] # t
    ELSE 0

RECURSIVE Split(_, _)
Split(s, sep) ==
    LET i == IndexOf(s, sep) IN
    IF i = 0 THEN <<s>>
    ELSE <<SubSeq(s, 1, i - 1)>> \o Split(SubSeq(s, i + 1, Len(s)), sep)

\* The URL parser's query parsing: split on "&", drop empty pieces, split
\* each on its first "=", decode name and value.
ParsePair(piece) ==
    LET i == IndexOf(piece, "=") IN
    IF i = 0 THEN <<FormDecode(piece), <<>>>>
    ELSE <<FormDecode(SubSeq(piece, 1, i - 1)),
           FormDecode(SubSeq(piece, i + 1, Len(piece)))>>

FormParse(search) ==
    LET pieces == SelectSeq(Split(search, "&"), LAMBDA p : p # <<>>) IN
    [i \in DOMAIN pieces |-> ParsePair(pieces[i])]

\* JSON.stringify of a flat object of strings.
RECURSIVE JsonMembers(_)
JsonMembers(e) ==
    IF e = <<>> THEN <<>>
    ELSE <<"\"">> \o e[1][1] \o <<"\"", ":", "\"">> \o e[1][2] \o <<"\"">>
         \o (IF Len(e) > 1 THEN <<",">> ELSE <<>>) \o JsonMembers(Tail(e))

JsonStringify(e) == <<"{">> \o JsonMembers(e) \o <<"}">>

\* --------------------------------------------------------------- URLs
Schemes == {"http://", "https://", "ftp://"}

\* /^(https?|ftp):\/\//.test(url)
IsAbsolute(url) == Len(url) > 0 /\ url[1] \in Schemes

\* Whether the URL parser accepts the text as an absolute URL: a scheme
\* followed by a host.
ParsesAsURL(url) == IsAbsolute(url) /\ Len(url) >= 2 /\ url[2] \notin {"/", "?"}

PathAndQuery(text) ==
    LET q == IndexOf(text, "?") IN
    IF q = 0 THEN [path |-> text, hasQuery |-> FALSE, search |-> <<>>]
    ELSE [path |-> SubSeq(text, 1, q - 1), hasQuery |-> TRUE,
          search |-> SubSeq(text, q + 1, Len(text))]

\* new URL(url), for a text ParsesAsURL accepts: an empty path is "/".
NewURL(url) ==
    LET pq == PathAndQuery(SubSeq(url, 3, Len(url))) IN
    [origin |-> SubSeq(url, 1, 2),
     pathname |-> IF pq.path = <<>> THEN <<"/">> ELSE pq.path,
     search |-> pq.search]

\* The last index of "/" in a path.
LastSlash(path) == CHOOSE i \in DOMAIN path :
                       path[i] = "/" /\ \A j \in (i + 1)..Len(path) : path[j] # "/"

\* new URL(url, base), for a relative reference and a base ParsesAsURL
\* accepts: a path starting with "/" replaces the base's path, another
\* path replaces its last segment, an empty path keeps it (and, without a
\* query of its own, keeps the base's query).
NewURLWithBase(url, base) ==
    LET b == NewURL(base)
        pq == PathAndQuery(url) IN
    [origin |-> b.origin,
     pathname |-> IF pq.path = <<>> THEN b.pathname
                  ELSE IF pq.path[1] = "/" THEN pq.path
                  ELSE SubSeq(b.pathname, 1, LastSlash(b.pathname)) \o pq.path,
     search |-> IF pq.path = <<>> /\ ~pq.hasQuery THEN b.search ELSE pq.search]

\* url.searchParams.append(key, value): the query is parsed, the pair added
\* at the end and the whole list serialized again.
SearchParamsAppend(u, key, value) ==
    [u EXCEPT !.search = FormSerialize(Append(FormParse(u.search), <<key, value>>))]

NoURL == [origin |-> <<>>, pathname |-> <<>>, search |-> <<>>]

\* URL.prototype.toString()
URLToString(u) ==
    u.origin \o u.pathname \o (IF u.search = <<>> THEN <<>> ELSE <<"?">> \o u.search)

\* ------------------------------------------------------ configuration
\* FetcherConfig: every field optional.
EmptyConfig ==
    [baseUrl |-> Undef, contentType |-> Undef, headers |-> Undef,
     params |-> Undef, timeout |-> Undef, transformRequest |-> Undef,
     transformResponse |-> Undef, validateStatus |-> Undef, token |-> Undef]

Json == <<"application/json">>
Form == <<"application/x-www-form-urlencoded">>

\* A header mapping is a function from header names to values; spreading
\* undefined adds nothing.
HeadersOf(o) == IF IsSet(o) THEN Val(o) ELSE <<>>

\* The functions a configuration may hold, by name.
\* transformRequest(data, headers): "stamp" adds the entry t=1; "sign" adds
\* the entry s=y or s=n as the headers carry an Authorization entry or not.
ApplyTransformRequest(f, data, headers) ==
    CASE f = "stamp" ->
           [data EXCEPT !.entries = Spread(@, << <<<<"t">>, <<"1">>>> >>)]
      [] f = "sign" ->
           [data EXCEPT !.entries =
               Spread(@, << <<<<"s">>,
                            IF "Authorization" \in DOMAIN headers
                            THEN <<"y">> ELSE <<"n">>>> >>)]
      [] OTHER -> data

\* transformResponse(data): the transform leaves its name on the data.
ApplyTransformResponse(f, data) == [data EXCEPT !.via = Append(@, f)]

\* validateStatus(status): the built-in range test and the custom ones.
ApplyValidateStatus(f, status) ==
    CASE f = "builtin" -> status >= MinOkStatus /\ status < EndOkStatus
      [] f = "acceptAll" -> TRUE
      [] f = "only404" -> status = 404
      [] f = "below500" -> status < 500
      [] OTHER -> FALSE

\* ------------------------------------------------------------- errors
NoError == [name |-> "none", message |-> "", url |-> <<>>, status |-> 0]
EnvError == [name |-> "Error", message |-> "fetch is not defined", url |-> <<>>, status |-> 0]
InvalidUrlError(url) ==
    [name |-> "Error", message |-> "Invalid URL: ${url}", url |-> url, status |-> 0]
UrlTypeError(url) ==
    [name |-> "TypeError", message |-> "Invalid URL", url |-> url, status |-> 0]
StatusError(status) ==
    [name |-> "Error", message |-> "Request failed with status code ${status}",
     url |-> <<>>, status |-> status]
AbortError == [name |-> "AbortError", message |-> "The operation was aborted", url |-> <<>>, status |-> 0]
NetworkError == [name |-> "TypeError", message |-> "Failed to fetch", url |-> <<>>, status |-> 0]
NotAFunction(reader) ==
    [name |-> "TypeError",
     message |-> IF reader = "json" THEN "response.json is not a function"
                 ELSE "response.text is not a function",
     url |-> <<>>, status |-> 0]
JsonSyntaxError == [name |-> "SyntaxError", message |-> "Unexpected end of JSON input", url |-> <<>>, status |-> 0]

\* --------------------------------------------- the dispatcher, by step
\* const baseUrl = config.baseUrl || Fetcher.defaults.baseUrl || ''
BaseUrlOf(config, dflt) == Val(OrStr(OrStr(config.baseUrl, dflt.baseUrl), Some(<<>>)))

\* The target URL: [ok, structured, url | text, error].
ResolveUrl(url, baseUrl) ==
    IF IsAbsolute(url)
    THEN IF ParsesAsURL(url)
         THEN [ok |-> TRUE, structured |-> TRUE, url |-> NewURL(url),
               text |-> <<>>, error |-> NoError]
         ELSE [ok |-> FALSE, structured |-> TRUE, url |-> NoURL,
               text |-> <<>>, error |-> UrlTypeError(url)]
    ELSE IF baseUrl # <<>>
    THEN IF ParsesAsURL(baseUrl)
         THEN [ok |-> TRUE, structured |-> TRUE, url |-> NewURLWithBase(url, baseUrl),
               text |-> <<>>, error |-> NoError]
         ELSE [ok |-> FALSE, structured |-> TRUE, url |-> NoURL,
               text |-> <<>>, error |-> InvalidUrlError(url)]
    ELSE [ok |-> TRUE, structured |-> FALSE, url |-> NoURL,
          text |-> url, error |-> NoError]

\* The spread written the other way round: the default's value wins.
UrlParamsDefaultsWin(config, dflt) == Spread(Entries(config.params), Entries(dflt.params))

\* const urlParams = { ...Fetcher.defaults.params, ...config.params }
UrlParams(config, dflt) == Spread(Entries(dflt.params), Entries(config.params))

\* queryString += `${key}=${encodeURIComponent(value)}&` for every key.
RECURSIVE QueryString(_)
QueryString(e) ==
    IF e = <<>> THEN <<>>
    ELSE e[1][1] \o <<"=">> \o EncodeURIComponent(e[1][2]) \o <<"&">>
         \o QueryString(Tail(e))

\* s.slice(0, -1)
SliceOffLast(s) == IF s = <<>> THEN <<>> ELSE SubSeq(s, 1, Len(s) - 1)

RECURSIVE AppendAll(_, _)
AppendAll(u, e) ==
    IF e = <<>> THEN u
    ELSE AppendAll(SearchParamsAppend(u, e[1][1], e[1][2]), Tail(e))

\* The text handed to fetch: fetchUrl.toString() after the params step.
FetchUrl(target, config, dflt) ==
    IF TruthyObj(config.params) \/ TruthyObj(dflt.params)
    THEN IF ~target.structured
         THEN target.text \o <<"?">> \o SliceOffLast(QueryString(UrlParams(config, dflt)))
         ELSE URLToString(AppendAll(target.url, UrlParams(config, dflt)))
    ELSE IF target.structured THEN URLToString(target.url) ELSE target.text

\* const contentType = config.contentType || Fetcher.defaults.contentType || 'application/json'
ContentTypeOf(config, dflt) ==
    Val(OrStr(OrStr(config.contentType, dflt.contentType), Some(Json)))

\* { ...Fetcher.defaults.headers, ...config.headers, 'Content-Type': contentType },
\* then the Authorization entry when config.token is truthy.
RequestHeaders(config, dflt) ==
    LET merged == ("Content-Type" :> ContentTypeOf(config, dflt))
                  @@ HeadersOf(config.headers) @@ HeadersOf(dflt.headers) IN
    IF TruthyStr(config.token)
    THEN ("Authorization" :> (<<"Bearer ">> \o Val(config.token))) @@ merged
    ELSE merged

\* The payload: '' is the falsy one.
TruthyData(o) == IsSet(o) /\ Val(o).kind # "emptyString"

\* config.transformRequest || Fetcher.defaults.transformRequest, under
\* the guard `data && (...)`; Undef when the branch is not taken.
TransformRequestOf(data, config, dflt) ==
    IF TruthyData(data) /\ (TruthyObj(config.transformRequest) \/ TruthyObj(dflt.transformRequest))
    THEN OrObj(config.transformRequest, dflt.transformRequest)
    ELSE Undef

RequestData(data, config, dflt) ==
    LET f == TransformRequestOf(data, config, dflt) IN
    IF IsSet(f)
    THEN Some(ApplyTransformRequest(Val(f), Val(data), RequestHeaders(config, dflt)))
    ELSE data

\* fetchOptions.body, set only under `if (data)`.
RequestBody(data, config, dflt) ==
    LET d == RequestData(data, config, dflt) IN
    IF TruthyData(d)
    THEN Some(IF ContentTypeOf(config, dflt) = Form
              THEN FormSerialize(Val(d).entries)
              ELSE JsonStringify(Val(d).entries))
    ELSE Undef

\* The timer set from the per-call timeout alone.
TimeoutPerCallOnly(config, dflt) ==
    IF TruthyNum(config.timeout) THEN config.timeout ELSE Undef

\* const timeout = config.timeout || Fetcher.defaults.timeout, under the
\* guard of the same test; Undef when no timer is set.
TimeoutOf(config, dflt) ==
    IF TruthyNum(config.timeout) \/ TruthyNum(dflt.timeout)
    THEN OrNum(config.timeout, dflt.timeout)
    ELSE Undef

\* The operands of || swapped: the default validator before the per-call one.
ValidateStatusDefaultsFirst(config, dflt) ==
    Val(OrObj(OrObj(dflt.validateStatus, config.validateStatus), Some("builtin")))

\* config.validateStatus || Fetcher.defaults.validateStatus || the built-in
ValidateStatusOf(config, dflt) ==
    Val(OrObj(OrObj(config.validateStatus, dflt.validateStatus), Some("builtin")))

TransformResponseOf(config, dflt) ==
    IF TruthyObj(config.transformResponse) \/ TruthyObj(dflt.transformResponse)
    THEN OrObj(config.transformResponse, dflt.transformResponse)
    ELSE Undef

\* ----------------------------------------------------------- wrappers
\* A call is [entry, method, url, data, config]; config is optional and
\* `config = {}` is its default. The wrappers fix the method and, for get
\* and delete, pass undefined as the payload.
ConfigOf(o) == IF IsSet(o) THEN Val(o) ELSE EmptyConfig

Forward(a) ==
    CASE a.entry = "get" ->
           [method |-> "GET", url |-> a.url, data |-> Undef, config |-> ConfigOf(a.config)]
      [] a.entry = "post" ->
           [method |-> "POST", url |-> a.url, data |-> a.data, config |-> ConfigOf(a.config)]
      [] a.entry = "put" ->
           [method |-> "PUT", url |-> a.url, data |-> a.data, config |-> ConfigOf(a.config)]
      [] a.entry = "delete" ->
           [method |-> "DELETE", url |-> a.url, data |-> Undef, config |-> ConfigOf(a.config)]
      [] OTHER ->
           [method |-> a.method, url |-> a.url, data |-> a.data, config |-> ConfigOf(a.config)]

\* ---------------------------------------------------------- transport
\* What fetch will do with a call: answer with a response, fail with a
\* network error, or never settle on its own.
NoResponse ==
    [kind |-> "none", status |-> 0, statusText |-> "", headers |-> <<>>,
     readers |-> {}, body |-> <<>>]

\* response.headers.get('content-type')?.includes('application/json')
IsJsonResponse(r) ==
    /\ "content-type" \in DOMAIN r.headers
    /\ \E i \in DOMAIN r.headers["content-type"] :
           r.headers["content-type"][i] = "application/json"

ReaderOf(r) == IF IsJsonResponse(r) THEN "json" ELSE "text"

\* The parser behind response.json(): the objects the model's bodies spell.
KnownObjects == {<<>>, << <<<<"message">>, <<"success">>>> >>}
JsonValid(body) == \E e \in KnownObjects : JsonStringify(e) = body
JsonParse(body) == CHOOSE e \in KnownObjects : JsonStringify(e) = body

\* await response.json() / await response.text(), when it succeeds.
Decode(r) ==
    IF ReaderOf(r) = "json"
    THEN [kind |-> "object", entries |-> JsonParse(r.body), text |-> <<>>, via |-> <<>>]
    ELSE [kind |-> "string", entries |-> <<>>, text |-> r.body, via |-> <<>>]

DecodeFails(r) == ReaderOf(r) = "json" /\ ~JsonValid(r.body)

NoData == [kind |-> "none", entries |-> <<>>, text |-> <<>>, via |-> <<>>]
NoResult ==
    [data |-> NoData, status |-> 0, statusText |-> "", headers |-> <<>>,
     config |-> EmptyConfig, request |-> NoResponse]

NoTimer == 0 - 1
NoLocals ==
    [baseUrl |-> Undef, contentType |-> Undef, timeout |-> Undef,
     validateStatus |-> Undef, transformRequest |-> Undef, transformResponse |-> Undef]

\* -------------------------------------------------------------- state
VARIABLES
    defaults,    \* Fetcher.defaults
    hasFetch,    \* typeof fetch !== 'undefined'
    active,      \* the calls the program makes
    args,        \* each call's arguments
    plan,        \* what the transport will do with each call
    pc,          \* idle, fetching (await fetch), reading (await json/text), resolved, rejected
    fetchCalls,  \* the invocations of fetch each call made
    aborted,     \* controller.signal.aborted, per call
    timer,       \* milliseconds left on the call's setTimeout, NoTimer when none
    firedAt,     \* where the call stood when its timer fired, "none" before
    used,        \* the call's local constants, once evaluated
    response,    \* the response handle fetch resolved with
    result,      \* the envelope the call resolved with
    error        \* the error the call rejected with

inputs == <<defaults, hasFetch, active, args, plan>>
vars == <<defaults, hasFetch, active, args, plan, pc, fetchCalls, aborted, timer,
          firedAt, used, response, result, error>>

\* An envelope whose config is filled up from the defaults.
EnvelopeMerged(data, r, config) ==
    [data |-> data, status |-> r.status, statusText |-> r.statusText,
     headers |-> r.headers,
     config |-> [f \in DOMAIN config |->
                    IF IsSet(config[f]) THEN config[f] ELSE defaults[f]],
     request |-> r]

\* The returned envelope: { data, status, statusText, headers, config, request }.
Envelope(data, r, config) ==
    [data |-> data, status |-> r.status, statusText |-> r.statusText,
     headers |-> r.headers, config |-> config, request |-> r]

\* The arguments request() sees for call c.
Req(c) == Forward(args[c])

\* What the call hands to fetch: fetch(fetchUrl.toString(), fetchOptions).
Invocation(c, target) ==
    LET a == Req(c) IN
    [url |-> FetchUrl(target, a.config, defaults),
     method |-> a.method,
     headers |-> RequestHeaders(a.config, defaults),
     body |-> RequestBody(a.data, a.config, defaults),
     signal |-> c]

Reject(c, e) ==
    /\ pc' = [pc EXCEPT ![c] = "rejected"]
    /\ error' = [error EXCEPT ![c] = e]

\* request(), from its entry to its first await: the environment check, the
\* URL, the params, the headers, the payload, the controller and its timer,
\* and the call of fetch.
Request(c) ==
    /\ c \in active
    /\ pc[c] = "idle"
    /\ LET a == Req(c)
           baseUrl == BaseUrlOf(a.config, defaults)
           target == ResolveUrl(a.url, baseUrl)
           timeout == TimeoutOf(a.config, defaults) IN
       IF ~hasFetch
       THEN /\ Reject(c, EnvError)
            /\ UNCHANGED <<fetchCalls, timer, used>>
       ELSE IF ~target.ok
       THEN /\ Reject(c, target.error)
            /\ used' = [used EXCEPT ![c].baseUrl = Some(baseUrl)]
            /\ UNCHANGED <<fetchCalls, timer>>
       ELSE /\ fetchCalls' = [fetchCalls EXCEPT ![c] = Append(@, Invocation(c, target))]
            /\ timer' = [timer EXCEPT ![c] = IF IsSet(timeout) THEN Val(timeout) ELSE NoTimer]
            /\ used' = [used EXCEPT ![c].baseUrl = Some(baseUrl),
                                    ![c].contentType = Some(ContentTypeOf(a.config, defaults)),
                                    ![c].timeout = timeout,
                                    ![c].transformRequest =
                                        TransformRequestOf(a.data, a.config, defaults)]
            /\ pc' = [pc EXCEPT ![c] = "fetching"]
            /\ UNCHANGED error
    /\ UNCHANGED <<inputs, aborted, firedAt, response, result>>

\* A millisecond passes on every running timer.
Tick ==
    /\ \E c \in Calls : timer[c] > 0
    /\ timer' = [c \in Calls |-> IF timer[c] > 0 THEN timer[c] - 1 ELSE timer[c]]
    /\ UNCHANGED <<inputs, pc, fetchCalls, aborted, firedAt, used, response, result, error>>

\* One controller shared by every call: the timer aborts them all.
TimerFireShared(c) ==
    /\ timer[c] = 0
    /\ firedAt[c] = "none"
    /\ aborted' = [d \in Calls |-> TRUE]
    /\ firedAt' = [firedAt EXCEPT ![c] = pc[c]]
    /\ UNCHANGED <<inputs, pc, fetchCalls, timer, used, response, result, error>>

\* setTimeout(() => controller.abort(), timeout): the timer is never
\* cleared, so it fires wherever the call stands.
TimerFire(c) ==
    /\ timer[c] = 0
    /\ firedAt[c] = "none"
    /\ aborted' = [aborted EXCEPT ![c] = TRUE]
    /\ firedAt' = [firedAt EXCEPT ![c] = pc[c]]
    /\ UNCHANGED <<inputs, pc, fetchCalls, timer, used, response, result, error>>

\* fetch resolves: the status is validated and the body read is started,
\* in one turn of the event loop.
FetchResolve(c) ==
    /\ pc[c] = "fetching"
    /\ plan[c].kind = "response"
    /\ ~aborted[c]
    /\ LET r == plan[c]
           validateStatus == ValidateStatusOf(Req(c).config, defaults) IN
       /\ response' = [response EXCEPT ![c] = r]
       /\ used' = [used EXCEPT ![c].validateStatus = Some(validateStatus)]
       /\ IF ~ApplyValidateStatus(validateStatus, r.status)
          THEN Reject(c, StatusError(r.status))
          ELSE IF ReaderOf(r) \notin r.readers
          THEN Reject(c, NotAFunction(ReaderOf(r)))
          ELSE /\ pc' = [pc EXCEPT ![c] = "reading"]
               /\ UNCHANGED error
    /\ UNCHANGED <<inputs, fetchCalls, aborted, timer, firedAt, result>>

\* fetch rejects with a network error, which the call passes on as it is.
FetchReject(c) ==
    /\ pc[c] = "fetching"
    /\ plan[c].kind = "networkError"
    /\ Reject(c, NetworkError)
    /\ UNCHANGED <<inputs, fetchCalls, aborted, timer, firedAt, used, response, result>>

\* fetch rejects because its signal was aborted before the response came.
FetchAbort(c) ==
    /\ pc[c] = "fetching"
    /\ aborted[c]
    /\ Reject(c, AbortError)
    /\ UNCHANGED <<inputs, fetchCalls, aborted, timer, firedAt, used, response, result>>

\* The body read resolves and the call clears its timer (clearTimeout).
BodyResolveClearsTimer(c) ==
    /\ pc[c] = "reading"
    /\ ~DecodeFails(response[c])
    /\ LET config == Req(c).config
           f == TransformResponseOf(config, defaults)
           decoded == Decode(response[c])
           data == IF IsSet(f) THEN ApplyTransformResponse(Val(f), decoded) ELSE decoded IN
       /\ used' = [used EXCEPT ![c].transformResponse = f]
       /\ result' = [result EXCEPT ![c] = Envelope(data, response[c], config)]
       /\ pc' = [pc EXCEPT ![c] = "resolved"]
    /\ timer' = [timer EXCEPT ![c] = NoTimer]
    /\ UNCHANGED <<inputs, fetchCalls, aborted, firedAt, response, error>>

\* The body read resolves: the response transform is applied and the
\* envelope returned.
BodyResolve(c) ==
    /\ pc[c] = "reading"
    /\ ~DecodeFails(response[c])
    /\ LET config == Req(c).config
           f == TransformResponseOf(config, defaults)
           decoded == Decode(response[c])
           data == IF IsSet(f) THEN ApplyTransformResponse(Val(f), decoded) ELSE decoded IN
       /\ used' = [used EXCEPT ![c].transformResponse = f]
       /\ result' = [result EXCEPT ![c] = Envelope(data, response[c], config)]
       /\ pc' = [pc EXCEPT ![c] = "resolved"]
    /\ UNCHANGED <<inputs, fetchCalls, aborted, timer, firedAt, response, error>>

\* The body read rejects: the body is not the JSON its header announces.
BodyReject(c) ==
    /\ pc[c] = "reading"
    /\ DecodeFails(response[c])
    /\ Reject(c, JsonSyntaxError)
    /\ UNCHANGED <<inputs, fetchCalls, aborted, timer, firedAt, used, response, result>>

\* The signal handed to fetch (fetchOptions.signal) also covers the
\* response's body: by the Fetch standard an abort errors a body that is
\* still being read, and the pending json()/text() rejects with the abort
\* error. A body that has arrived in full is read all the same
\* (BodyResolve stays enabled), as is the body of a transport that does
\* not watch the signal.
BodyAbort(c) ==
    /\ pc[c] = "reading"
    /\ aborted[c]
    /\ Reject(c, AbortError)
    /\ UNCHANGED <<inputs, fetchCalls, aborted, timer, firedAt, used, response, result>>

Next ==
    \/ \E c \in Calls : Request(c)
    \/ Tick
    \/ \E c \in Calls : TimerFire(c)
    \/ \E c \in Calls : FetchResolve(c)
    \/ \E c \in Calls : FetchReject(c)
    \/ \E c \in Calls : FetchAbort(c)
    \/ \E c \in Calls : BodyResolve(c)
    \/ \E c \in Calls : BodyReject(c)
    \/ \E c \in Calls : BodyAbort(c)

\* ------------------------------------------------------------- inputs
\* The URLs, bases, mappings, payloads and responses the calls are made with.
AbsUrl == <<"https://", "api.example.com", "/", "data">>
AbsUrlQ == AbsUrl \o <<"?", "k", "=", "a", "%", "2", "0", "z">>
HostOnly == <<"https://", "api.example.com">>
Malformed == <<"http://">>
RelUrl == <<"/", "users">>
RelUrlQ == RelUrl \o <<"?", "k", "=", "a">>
RelNoSlash == <<"users">>
Base1 == <<"https://", "api.example.com", "/", "v1", "/">>
Base2 == <<"http://", "localhost", "/", "api">>
BadBase == <<"/", "api">>

K == <<"k">>
M == <<"m">>
N == <<"n">>

ConfigParams ==
    {Undef, Some(<<>>), Some(<< <<K, <<"b">>>> >>),
     Some(<< <<K, <<"a", " ", "b">>>>, <<M, <<"a", "&", "b", "=">>>> >>)}
DefaultParams ==
    {Undef, Some(<< <<K, <<"c">>>> >>), Some(<< <<N, <<"1", "+">>>>, <<K, <<"c", "?">>>> >>)}

Payload(e) == Some([kind |-> "object", entries |-> e])
EmptyString == Some([kind |-> "emptyString", entries |-> <<>>])
Payloads == {Undef, EmptyString, Payload(<< <<<<"q">>, <<"x", " ", "y">>>>, <<<<"r">>, <<"1">>>> >>)}

JsonText == JsonStringify(<< <<<<"message">>, <<"success">>>> >>)
Truncated == <<"{", "\"", "message">>
PlainText == <<"h", "i">>

Answer(status, headers, readers, body) ==
    [kind |-> "response", status |-> status,
     statusText |-> IF status = 200 THEN "OK" ELSE "",
     headers |-> headers, readers |-> readers, body |-> body]
Hang == [NoResponse EXCEPT !.kind = "hang"]
Offline == [NoResponse EXCEPT !.kind = "networkError"]

JsonHeaders == ("content-type" :> Json)
OkJson == Answer(200, JsonHeaders, {"json", "text"}, JsonText)
\* The response of the repository's test: a json() reader, no text()
\* reader, new Headers().
TestMock == Answer(200, <<>>, {"json"}, JsonText)

Get(url, config) ==
    [entry |-> "get", method |-> "GET", url |-> url, data |-> Undef, config |-> config]
CallOf(entry, method, url, data, config) ==
    [entry |-> entry, method |-> method, url |-> url, data |-> data, config |-> config]

Entry(e, m) == [entry |-> e, method |-> m]
Scenario(d, call, p) == [defaults |-> d, call |-> call, plan |-> p, hasFetch |-> TRUE]

Timeouts == {Undef} \cup {Some(t) : t \in 0..MaxTimeout}

\* Status validation: every pair of validators against the statuses around
\* the built-in range, with bodies that decode and bodies that do not.
StatusScenarios ==
    {Scenario([EmptyConfig EXCEPT !.validateStatus = dv],
              CallOf(e.entry, e.method, AbsUrl, Undef,
                     Some([EmptyConfig EXCEPT !.validateStatus = cv])),
              Answer(st, h, {"json", "text"}, b)) :
        e \in {Entry("get", "GET"), Entry("put", "PUT"), Entry("request", "DELETE")},
        dv \in {Undef, Some("below500"), Some("only404")},
        cv \in {Undef, Some("acceptAll"), Some("only404")},
        st \in {199, 200, 299, 300, 404, 500},
        h \in {JsonHeaders, <<>>},
        b \in {JsonText, Truncated}}

\* Query parameters: every pair of mappings on every form of URL.
ParamsScenarios ==
    {Scenario([EmptyConfig EXCEPT !.params = dp],
              Get(u, Some([EmptyConfig EXCEPT !.params = cp, !.baseUrl = b])),
              OkJson) :
        dp \in DefaultParams, cp \in ConfigParams,
        u \in {AbsUrl, AbsUrlQ, RelUrl, RelUrlQ},
        b \in {Undef, Some(Base1)}}

\* Authorization: manual headers on both levels against tokens on both.
AuthHeaders(v) == ("Authorization" :> <<"Basic ", v>>)
AuthScenarios ==
    {Scenario([EmptyConfig EXCEPT !.headers = dh, !.token = dt],
              CallOf("post", "POST", AbsUrl, Payload(<< <<K, <<"b">>>> >>),
                     Some([EmptyConfig EXCEPT !.headers = ch, !.token = ct,
                                              !.transformRequest = tr])),
              OkJson) :
        dh \in {Undef, Some(AuthHeaders("d")), Some(("Accept" :> <<"*/*">>))},
        dt \in {Undef, Some(<<"dflt">>)},
        ch \in {Undef, Some(AuthHeaders("c")),
                Some(AuthHeaders("c") @@ ("X-Id" :> <<"7">>)),
                Some(("authorization" :> <<"Basic ", "c">>))},
        ct \in {Undef, Some(<<>>), Some(<<"abc">>)},
        tr \in {Undef, Some("sign")}}

\* Payloads: every entry point, content type and request transform, with
\* manual Content-Type headers on both levels.
Entries6 ==
    {Entry("get", "GET"), Entry("post", "POST"), Entry("put", "PUT"),
     Entry("delete", "DELETE"), Entry("request", "GET"), Entry("request", "DELETE")}
BodyScenarios ==
    {Scenario([EmptyConfig EXCEPT !.contentType = dc, !.transformRequest = dt,
                                  !.headers = dh],
              CallOf(e.entry, e.method, AbsUrl, data,
                     Some([EmptyConfig EXCEPT !.contentType = cc,
                                              !.transformRequest = ct,
                                              !.headers = ch])),
              OkJson) :
        e \in Entries6, data \in Payloads,
        dc \in {Undef, Some(Json), Some(Form)},
        cc \in {Undef, Some(Json), Some(Form)},
        dt \in {Undef, Some("sign")},
        ct \in {Undef, Some("stamp")},
        dh \in {Undef, Some(("Content-Type" :> <<"text/xml">>))},
        ch \in {Undef, Some(("Content-Type" :> <<"text/plain">>)),
                Some(("content-type" :> <<"text/plain">>))}}

\* Base URLs: every form of URL against set, empty and unset bases.
BaseScenarios ==
    {Scenario([EmptyConfig EXCEPT !.baseUrl = db],
              Get(u, Some([EmptyConfig EXCEPT !.baseUrl = cb])),
              OkJson) :
        db \in {Undef, Some(<<>>), Some(Base2)},
        cb \in {Undef, Some(<<>>), Some(Base1), Some(BadBase)},
        u \in {AbsUrl, HostOnly, Malformed, RelUrl, RelUrlQ, RelNoSlash}}

\* Timeouts: every pair of timeouts against a transport that answers,
\* fails or hangs.
TimeoutScenarios ==
    {Scenario([EmptyConfig EXCEPT !.timeout = dt],
              Get(AbsUrl, Some([EmptyConfig EXCEPT !.timeout = ct])),
              p) :
        dt \in Timeouts, ct \in Timeouts, p \in {OkJson, Hang, Offline}}

\* Responses: header, readers and body against the response transforms;
\* the call is made with and without a config argument.
ResponseScenarios ==
    {Scenario([EmptyConfig EXCEPT !.transformResponse = dt],
              Get(AbsUrl, c),
              Answer(200, h, rd, b)) :
        dt \in {Undef, Some("tag")},
        c \in {Undef, Some(EmptyConfig),
               Some([EmptyConfig EXCEPT !.transformResponse = Some("unwrap")]),
               Some([EmptyConfig EXCEPT !.timeout = Some(1)])},
        h \in {<<>>, JsonHeaders,
               ("content-type" :> <<"application/json", "; charset=utf-8">>),
               ("content-type" :> <<"text/plain">>)},
        rd \in {{"json", "text"}, {"json"}},
        b \in {JsonText, PlainText, Truncated}}

\* No fetch in the environment.
EnvScenarios ==
    {[Scenario(EmptyConfig, Get(u, Undef), OkJson) EXCEPT !.hasFetch = FALSE] :
        u \in {AbsUrl, RelUrl}}

Scenarios ==
    StatusScenarios \cup ParamsScenarios \cup AuthScenarios \cup BodyScenarios
    \cup BaseScenarios \cup TimeoutScenarios \cup ResponseScenarios \cup EnvScenarios

\* Concurrent calls: every call is made, each with its own timeout and its
\* own transport behaviour, under shared defaults.
ConcurrentCalls ==
    {Get(AbsUrl, Some([EmptyConfig EXCEPT !.timeout = t])) : t \in {Undef, Some(1)}}
ConcurrentPlans == {OkJson, Hang, Answer(404, <<>>, {"json", "text"}, PlainText)}
ConcurrentDefaults == {EmptyConfig, [EmptyConfig EXCEPT !.timeout = Some(MaxTimeout)]}

Quiet ==
    /\ pc = [c \in Calls |-> "idle"]
    /\ fetchCalls = [c \in Calls |-> <<>>]
    /\ aborted = [c \in Calls |-> FALSE]
    /\ timer = [c \in Calls |-> NoTimer]
    /\ firedAt = [c \in Calls |-> "none"]
    /\ used = [c \in Calls |-> NoLocals]
    /\ response = [c \in Calls |-> NoResponse]
    /\ result = [c \in Calls |-> NoResult]
    /\ error = [c \in Calls |-> NoError]

\* One call, drawn from the scenarios.
InitSingle ==
    /\ \E s \in Scenarios :
        /\ defaults = s.defaults
        /\ hasFetch = s.hasFetch
        /\ args = [c \in Calls |-> s.call]
        /\ plan = [c \in Calls |-> s.plan]
    /\ active = {1}
    /\ Quiet

\* Every call at once.
InitConcurrent ==
    /\ defaults \in ConcurrentDefaults
    /\ hasFetch = TRUE
    /\ args \in [Calls -> ConcurrentCalls]
    /\ plan \in [Calls -> ConcurrentPlans]
    /\ active = Calls
    /\ Quiet

Init == InitSingle \/ InitConcurrent

\* The runs the liveness of the timeout is checked on: one call with every
\* pair of timeouts or every kind of response, or every call at once
\* against a transport that answers or hangs.
FairScenarios == TimeoutScenarios \cup ResponseScenarios \cup EnvScenarios

FairInit ==
    \/ /\ \E s \in FairScenarios :
            /\ defaults = s.defaults
            /\ hasFetch = s.hasFetch
            /\ args = [c \in Calls |-> s.call]
            /\ plan = [c \in Calls |-> s.plan]
       /\ active = {1}
       /\ Quiet
    \/ /\ defaults \in ConcurrentDefaults
       /\ hasFetch = TRUE
       /\ args \in [Calls -> ConcurrentCalls]
       /\ plan \in [Calls -> {OkJson, Hang}]
       /\ active = Calls
       /\ Quiet

Spec == Init /\ [][Next]_vars

\* Time passes, a due timer's callback runs, and the transport acts on an
\* aborted signal.
Fairness ==
    /\ WF_vars(Tick)
    /\ \A c \in Calls : WF_vars(TimerFire(c))
    /\ \A c \in Calls : WF_vars(FetchAbort(c))

FairSpec == FairInit /\ [][Next]_vars /\ Fairness

\* ------------------------------------------------------------- claims
Settled(c) == pc[c] \in {"resolved", "rejected"}
Sent(c) == Len(fetchCalls[c]) > 0

\* The override rule as the specification words it: the per-call value
\* when the per-call config sets the field, else the default's when the
\* defaults set it, else the fallback.
Layered(perCall, dflt, fallback) ==
    IF IsSet(perCall) THEN perCall ELSE IF IsSet(dflt) THEN dflt ELSE fallback

\* Header names are case-insensitive.
Lower(k) ==
    CASE k = "Authorization" -> "authorization"
      [] k = "Content-Type" -> "content-type"
      [] k = "Accept" -> "accept"
      [] k = "X-Id" -> "x-id"
      [] OTHER -> k
Named(h, name) == {k \in DOMAIN h : Lower(k) = name}

C2_TimeoutRejects ==
    /\ [](\A c \in Calls : aborted[c] => timer[c] = 0)
    /\ \A c \in Calls :
          (/\ pc[c] = "fetching"
           /\ plan[c].kind = "hang"
           /\ (TruthyNum(Req(c).config.timeout) \/ TruthyNum(defaults.timeout)))
          ~> (pc[c] = "rejected" /\ error[c] = AbortError /\ aborted[c])

C2_Witness ==
    \E c \in Calls :
        /\ plan[c].kind = "hang"
        /\ ~TruthyNum(Req(c).config.timeout) /\ TruthyNum(defaults.timeout)
        /\ pc[c] = "rejected" /\ error[c] = AbortError /\ firedAt[c] = "fetching"

\* The query of a URL text: what follows its first "?".
QueryOf(text) == PathAndQuery(text).search
ParamsConfigured(c) == IsSet(Req(c).config.params) \/ IsSet(defaults.params)
\* The union of the two mappings, the per-call value on a collision.
UnionKeys(c) == Keys(Entries(defaults.params)) \cup Keys(Entries(Req(c).config.params))
UnionValue(c, k) ==
    IF k \in Keys(Entries(Req(c).config.params))
    THEN Lookup(Entries(Req(c).config.params), k)
    ELSE Lookup(Entries(defaults.params), k)
IsUnion(c, pairs) ==
    /\ Len(pairs) = Cardinality(UnionKeys(c))
    /\ {pairs[i][1] : i \in DOMAIN pairs} = UnionKeys(c)
    /\ \A i \in DOMAIN pairs : pairs[i][2] = UnionValue(c, pairs[i][1])
Encoded(text) == \A i \in DOMAIN text : text[i] \notin {" ", "?"}

\* C3 as claimed, on the structured URLs it names: the final query string
\* holds every key of the union exactly once, with the per-call value on a
\* collision, encoded.
C3_EachKeyOnce ==
    \A c \in Calls :
        (Sent(c) /\ ParamsConfigured(c) /\ IsAbsolute(Req(c).url)) =>
            LET q == QueryOf(fetchCalls[c][1].url)
                pairs == FormParse(q) IN
            /\ Encoded(q)
            /\ \A k \in UnionKeys(c) :
                   /\ Cardinality({i \in DOMAIN pairs : pairs[i][1] = k}) = 1
                   /\ \A i \in DOMAIN pairs :
                          pairs[i][1] = k => pairs[i][2] = UnionValue(c, k)

\* C3 as amended: the dispatcher appends the union's pairs, each key once,
\* the per-call value on a collision, the value encoded, after what the URL
\* already holds: a structured URL keeps its own parameters in front of
\* them, a plain string gets "?" and the pairs added to its text as it is.
\* A URL without a query of its own ends up with each key exactly once.
C3_UnionAppended ==
    \A c \in Calls :
        (Sent(c) /\ ParamsConfigured(c)) =>
            LET given == Req(c).url
                sent == fetchCalls[c][1].url
                structured == IsAbsolute(given) \/ Val(used[c].baseUrl) # <<>>
                n == Cardinality(UnionKeys(c)) IN
            /\ IF structured
               THEN LET pairs == FormParse(QueryOf(sent))
                        own == FormParse(QueryOf(given)) IN
                    /\ Encoded(QueryOf(sent))
                    /\ Len(pairs) = Len(own) + n
                    /\ SubSeq(pairs, 1, Len(own)) = own
                    /\ IsUnion(c, SubSeq(pairs, Len(own) + 1, Len(pairs)))
               ELSE /\ Len(sent) > Len(given)
                    /\ SubSeq(sent, 1, Len(given) + 1) = given \o <<"?">>
                    /\ LET added == SubSeq(sent, Len(given) + 2, Len(sent)) IN
                       /\ Encoded(added)
                       /\ IsUnion(c, FormParse(added))
            /\ QueryOf(given) = <<>> =>
                   \A k \in UnionKeys(c) :
                       Cardinality({i \in DOMAIN FormParse(QueryOf(sent)) :
                                        FormParse(QueryOf(sent))[i][1] = k}) = 1

C3_Witness ==
    \E c \in Calls :
        /\ Sent(c)
        /\ K \in Keys(Entries(defaults.params))
        /\ K \in Keys(Entries(Req(c).config.params))
        /\ M \in Keys(Entries(Req(c).config.params))
        /\ QueryOf(Req(c).url) # <<>>
        /\ IsAbsolute(Req(c).url)

\* C4: with a per-call token the header mapping handed to the transport
\* holds one Authorization entry, 'Bearer <token>', whatever headers the
\* defaults and the call supply; without one the dispatcher adds none.
C4_BearerOnly ==
    \A c \in Calls :
        Sent(c) =>
            LET h == fetchCalls[c][1].headers
                config == Req(c).config
                manual == HeadersOf(config.headers) @@ HeadersOf(defaults.headers) IN
            /\ TruthyStr(config.token) =>
                   /\ Cardinality(Named(h, "authorization")) = 1
                   /\ \A k \in Named(h, "authorization") :
                          h[k] = <<"Bearer ">> \o Val(config.token)
            /\ ~IsSet(config.token) =>
                   \A k \in Named(h, "authorization") : k \in DOMAIN manual /\ h[k] = manual[k]

\* C5: the repository's test: get on an absolute URL without a config,
\* under empty defaults, answered 200 by the mock with its json() reader
\* and empty header collection, calls fetch once with the URL as given,
\* GET, {Content-Type: application/json}, a signal and no body, and
\* resolves with the JSON body and status 200.
C5_GetSuccess ==
    \A c \in Calls :
        (/\ c \in active
         /\ args[c] = Get(AbsUrl, Undef)
         /\ defaults = EmptyConfig /\ hasFetch
         /\ plan[c] = TestMock
         /\ Settled(c)) =>
            /\ Len(fetchCalls[c]) = 1
            /\ fetchCalls[c][1] =
                   [url |-> AbsUrl, method |-> "GET",
                    headers |-> ("Content-Type" :> Json), body |-> Undef, signal |-> c]
            /\ pc[c] = "resolved"
            /\ result[c].status = 200
            /\ result[c].data.entries = << <<<<"message">>, <<"success">>>> >>

ScalarFields ==
    {"baseUrl", "contentType", "timeout", "validateStatus", "transformRequest",
     "transformResponse"}

C7_PerCallWins ==
    \A c \in Calls :
        \A f \in ScalarFields :
            (IsSet(used[c][f]) /\ IsSet(Req(c).config[f])) =>
                Val(used[c][f]) = Val(Req(c).config[f])

\* C8: a call with a payload hands the transport the form serialization
\* of the (request-transformed) payload when the effective content type is
\* application/x-www-form-urlencoded and its JSON text otherwise; the
\* Content-Type sent is that content type alone, whatever Content-Type the
\* headers of the defaults or of the call supply; get and delete pass no body.
C8_BodyByContentType ==
    \A c \in Calls :
        Sent(c) =>
            LET sent == fetchCalls[c][1]
                a == Req(c)
                ct == Val(Layered(a.config.contentType, defaults.contentType, Some(Json)))
                f == Layered(a.config.transformRequest, defaults.transformRequest, Undef)
                payload == IF IsSet(f)
                           THEN ApplyTransformRequest(Val(f), Val(a.data), sent.headers)
                           ELSE Val(a.data) IN
            /\ TruthyData(a.data) =>
                   /\ IsSet(sent.body)
                   /\ Val(sent.body) = IF ct = Form THEN FormSerialize(payload.entries)
                                       ELSE JsonStringify(payload.entries)
            /\ Cardinality(Named(sent.headers, "content-type")) = 1
            /\ \A k \in Named(sent.headers, "content-type") : sent.headers[k] = ct
            /\ args[c].entry \in {"get", "delete"} => ~IsSet(sent.body)

\* C9 as claimed: a timer that fires once the transport call has returned
\* its response or failed changes nothing: the call does not end in the
\* abort error.
C9_LateTimerHarmless ==
    \A c \in Calls :
        firedAt[c] \in {"reading", "resolved", "rejected"} => error[c] # AbortError

\* C9 as amended: the timer is never cleared, and once the call itself has
\* settled its firing changes nothing of the call's outcome; the abort
\* error is the outcome only of a call whose timer fired while it awaited
\* the transport's response or the reading of the body.
C9_SettledCallUntouched ==
    /\ [](\A c \in Calls :
            /\ error[c] = AbortError => firedAt[c] \in {"fetching", "reading"}
            /\ firedAt[c] # "none" => aborted[c] /\ timer[c] = 0)
    /\ [][\A c \in Calls :
            /\ Settled(c) =>
                   /\ pc'[c] = pc[c]
                   /\ result'[c] = result[c]
                   /\ error'[c] = error[c]
                   /\ fetchCalls'[c] = fetchCalls[c]
            /\ (timer[c] # NoTimer /\ firedAt[c] = "none") =>
                   /\ timer'[c] # NoTimer
                   /\ timer'[c] <= timer[c]
                   /\ firedAt'[c] = "none" => ~aborted'[c]]_vars

C9_Witness ==
    \E c \in Calls :
        /\ firedAt[c] = "resolved"
        /\ pc[c] = "resolved"
        /\ aborted[c]
        /\ result[c].status = 200

\* What belongs to one call.
CallState(c) ==
    <<pc[c], fetchCalls[c], aborted[c], firedAt[c], used[c], response[c], result[c], error[c]>>

\* C10: concurrent calls do not interact: each makes one transport call,
\* with its own token; a token is signalled only by its own call's timer; a
\* step changes one call only and never the defaults; a call resolves with
\* the response the transport gave to it.
C10_CallsIndependent ==
    /\ [](\A c \in Calls :
            /\ Len(fetchCalls[c]) <= 1
            /\ pc[c] \in {"fetching", "reading", "resolved"} => Len(fetchCalls[c]) = 1
            /\ Sent(c) => fetchCalls[c][1].signal = c
            /\ aborted[c] => (firedAt[c] # "none" /\ timer[c] = 0 /\ IsSet(used[c].timeout))
            /\ pc[c] = "resolved" => result[c].request = plan[c])
    /\ [][/\ defaults' = defaults
          /\ \A c, d \in Calls :
                (c # d /\ CallState(c)' # CallState(c)) => CallState(d)' = CallState(d)]_vars

C10_Witness ==
    \E c, d \in Calls :
        /\ c # d
        /\ pc[c] = "rejected" /\ error[c] = AbortError /\ aborted[c]
        /\ pc[d] = "resolved" /\ ~aborted[d] /\ timer[d] = NoTimer

====
